---- MODULE Spec2Model ----
(***************************************************************************)
(* State-machine model of reedline's ColumnarMenu                          *)
(* (src/src/menu/columnar_menu.rs): the pending-event protocol, the layout *)
(* recomputation, the six cursor moves, the completer refresh, partial     *)
(* completion and the commit of the selected suggestion into the buffer.   *)
(*                                                                         *)
(* Strings are sequences of one-character strings.  Option<T> is a         *)
(* sequence: <<>> is None and <<x>> is Some(x).                            *)
(***************************************************************************)
EXTENDS Integers, Sequences, FiniteSets, TLC

\* ------------------------------------------------------------------ bounds
\* Most suggestions one completer call returns.
MaxValues == 3
\* The two screen widths the painter reports: a narrow and a wide terminal.
NarrowWidth == 2
MaxWidth == 6
\* Largest default column count the menu is built with.
MaxColumns == 3
\* Longest line buffer the host editor holds while the menu is navigated.
MaxBuffer == 1
\* Longest line buffer the host types in the completion runs, and the longest
\* line the completions may grow it to.
MaxText == 1
MaxLine == 2
\* The screen width of the completion runs.
BridgeWidth == 16
\* The fixed column widths of the layout runs: one a few cells wide and one
\* past the range of u16; and their largest padding.
FixedColumn == 3
WideColumn == 65538
MaxPadding == 2
\* Most suggestions, and most available lines, of the rendering runs.
MaxRenderValues == 7
MaxLines == 2
\* A number of available lines that twice over is past the range of u16.
ManyLines == 32768

\* ------------------------------------------------------------------ state
VARIABLES
    active,                 \* ColumnarMenu.active
    default_details,        \* ColumnarMenu.default_details (columns, col_width, col_padding)
    working_details,        \* ColumnarMenu.working_details (columns, col_width)
    values,                 \* ColumnarMenu.values
    col_pos,                \* ColumnarMenu.col_pos
    row_pos,                \* ColumnarMenu.row_pos
    event,                  \* ColumnarMenu.event
    longest_suggestion,     \* ColumnarMenu.longest_suggestion
    input,                  \* ColumnarMenu.input
    only_buffer_difference, \* ColumnarMenu.only_buffer_difference
    editor,                 \* the host Editor: line buffer text and insertion point
    fault,                  \* "none", or the panic that ended the program
    last                    \* the last call on the menu: its event, completer calls and result

config == <<default_details, only_buffer_difference>>
layout == <<working_details, longest_suggestion>>
cursor == <<col_pos, row_pos>>
vars == <<active, default_details, working_details, values, col_pos, row_pos, event,
          longest_suggestion, input, only_buffer_difference, editor, fault, last>>

\* ------------------------------------------------------------ arithmetic
Min(a, b) == IF a < b THEN a ELSE b
Max(a, b) == IF a > b THEN a ELSE b
\* usize/u16 saturating_sub
saturating_sub(a, b) == IF a > b THEN a - b ELSE 0
\* `x as u16`, and u16 arithmetic in a build without overflow checks
U16(x) == x % 65536

None == <<>>
Some(x) == <<x>>

\* ------------------------------------------------------------ menu events
NoEvent == [kind |-> "None", updated |-> FALSE]
Ev(k) == [kind |-> k, updated |-> FALSE]
EvU(k, u) == [kind |-> k, updated |-> u]
NavKinds == {"NextElement", "PreviousElement", "MoveUp", "MoveDown", "MoveLeft", "MoveRight"}
PageKinds == {"PreviousPage", "NextPage"}
MenuEvents ==
    {EvU(k, u) : k \in {"Activate", "Edit"}, u \in BOOLEAN}
        \cup {Ev(k) : k \in {"Deactivate"} \cup NavKinds \cup PageKinds}

\* ------------------------------------------------------------ strings
\* Every string over the alphabet S of at most k characters.
Strs(S, k) == UNION {[1..m -> S] : m \in 0..k}

\* str.replace('\n', " ")
ReplaceNewlines(s) == [i \in DOMAIN s |-> IF s[i] = "\n" THEN " " ELSE s[i]]

\* Length of the longest common prefix of two strings.
RECURSIVE CommonPrefixLen(_, _)
CommonPrefixLen(a, b) ==
    IF a = <<>> \/ b = <<>> \/ Head(a) # Head(b)
        THEN 0
        ELSE 1 + CommonPrefixLen(Tail(a), Tail(b))

\* str::starts_with
starts_with(s, prefix) ==
    /\ Len(prefix) <= Len(s)
    /\ SubSeq(s, 1, Len(prefix)) = prefix

\* ------------------------------------------------------------ navigation
\* ColumnarMenu::get_cols
get_cols(wd) == Max(wd.columns, 1)

\* ColumnarMenu::get_rows with the division alone.
get_rows_floor(n, cols) ==
    LET v == U16(n) IN
    IF v = 0 THEN 1 ELSE v \div cols

\* ColumnarMenu::get_rows, for n values in cols columns
get_rows(n, cols) ==
    LET v == U16(n) IN
    IF v = 0 THEN 1
    ELSE IF v % cols # 0 THEN (v \div cols) + 1 ELSE v \div cols

\* ColumnarMenu::index
index(col, row, cols) == U16(row * cols + col)

\* move_next without its final reset of a cursor past the last value.
move_next_no_reset(col, row, cols, n) ==
    LET c1 == U16(col + 1)
        over == c1 >= cols
        r2 == IF over THEN U16(row + 1) ELSE row
        c2 == IF over THEN 0 ELSE c1
        wrap == r2 >= get_rows(n, cols)
    IN  IF wrap THEN <<0, 0>> ELSE <<c2, r2>>

\* A reset that leaves the row where it was.
reset_position_column_only == <<0, row_pos>>

\* ColumnarMenu::reset_position: the cursor it sets.
reset_position == <<0, 0>>

\* The six moves: from cursor (col, row) over n values in cols columns to
\* the new <<col, row>>.
move_next(col, row, cols, n) ==
    LET c1 == U16(col + 1)
        over == c1 >= cols
        r2 == IF over THEN U16(row + 1) ELSE row
        c2 == IF over THEN 0 ELSE c1
        wrap == r2 >= get_rows(n, cols)
        r3 == IF wrap THEN 0 ELSE r2
        c3 == IF wrap THEN 0 ELSE c2
        position == U16(r3 * cols + c3)
    IN  IF position >= U16(n) THEN <<0, 0>> ELSE <<c3, r3>>

\* move_previous without the correction of a cursor past the last value.
move_previous_unchecked(col, row, cols, n) ==
    IF col > 0 THEN <<col - 1, row>>
    ELSE IF row > 0 THEN <<saturating_sub(cols, 1), row - 1>>
    ELSE <<saturating_sub(cols, 1), saturating_sub(get_rows(n, cols), 1)>>

move_previous(col, row, cols, n) ==
    LET new == IF col > 0 THEN <<col - 1, row>>
               ELSE IF row > 0 THEN <<saturating_sub(cols, 1), row - 1>>
               ELSE <<saturating_sub(cols, 1), saturating_sub(get_rows(n, cols), 1)>>
        position == U16(new[2] * cols + new[1])
    IN  IF position >= U16(n)
            THEN <<saturating_sub(U16(n) % cols, 1), saturating_sub(get_rows(n, cols), 1)>>
            ELSE new

\* move_up wrapping to the last row without looking for a value there.
move_up_last_row(col, row, cols, n) ==
    IF row > 0 THEN <<col, row - 1>>
    ELSE <<col, saturating_sub(get_rows(n, cols), 1)>>

move_up(col, row, cols, n) ==
    IF row > 0 THEN <<col, row - 1>>
    ELSE LET new_row == saturating_sub(get_rows(n, cols), 1)
             idx == U16(new_row * cols + col)
         IN  IF idx >= U16(n) THEN <<col, saturating_sub(new_row, 1)>> ELSE <<col, new_row>>

\* move_down wrapping on row overflow only.
move_down_rows_only(col, row, cols, n) ==
    LET new_row == U16(row + 1) IN
    IF new_row >= get_rows(n, cols) THEN <<col, 0>> ELSE <<col, new_row>>

move_down(col, row, cols, n) ==
    LET new_row == U16(row + 1) IN
    IF new_row >= get_rows(n, cols) THEN <<col, 0>>
    ELSE IF U16(new_row * cols + col) >= U16(n) THEN <<col, 0>> ELSE <<col, new_row>>

move_left(col, row, cols, n) ==
    IF col > 0 THEN <<col - 1, row>>
    ELSE IF index(col, row, cols) + 1 = n THEN <<0, row>>
    ELSE <<saturating_sub(cols, 1), row>>

move_right(col, row, cols, n) ==
    LET new_col == U16(col + 1) IN
    IF new_col >= cols \/ index(col, row, cols) + 2 > n THEN <<0, row>> ELSE <<new_col, row>>

\* The dispatch with the page events moving the cursor by a row.
Navigate_paging(kind, col, row, cols, n) ==
    CASE kind = "NextElement" -> move_next(col, row, cols, n)
      [] kind = "PreviousElement" -> move_previous(col, row, cols, n)
      [] kind = "MoveUp" -> move_up(col, row, cols, n)
      [] kind = "MoveDown" -> move_down(col, row, cols, n)
      [] kind = "MoveLeft" -> move_left(col, row, cols, n)
      [] kind = "MoveRight" -> move_right(col, row, cols, n)
      [] kind = "PreviousPage" -> move_up(col, row, cols, n)
      [] kind = "NextPage" -> move_down(col, row, cols, n)
      [] OTHER -> <<col, row>>

\* The navigation arm of the dispatch in update_working_details.
Navigate(kind, col, row, cols, n) ==
    CASE kind = "NextElement" -> move_next(col, row, cols, n)
      [] kind = "PreviousElement" -> move_previous(col, row, cols, n)
      [] kind = "MoveUp" -> move_up(col, row, cols, n)
      [] kind = "MoveDown" -> move_down(col, row, cols, n)
      [] kind = "MoveLeft" -> move_left(col, row, cols, n)
      [] kind = "MoveRight" -> move_right(col, row, cols, n)
      [] OTHER -> <<col, row>>

\* ------------------------------------------------------------ layout
\* Maximum of f over the suggestions, as the folds of update_working_details.
RECURSIVE FoldMax(_, _)
FoldMax(lens, acc) ==
    IF lens = <<>> THEN acc
    ELSE FoldMax(Tail(lens), IF Head(lens) > acc THEN Head(lens) ELSE acc)

exist_description(vals) == \E i \in DOMAIN vals : vals[i].description # None

\* The working details when a suggestion has a description, with the default
\* column count kept.
description_details_default_columns(w, dd) == [columns |-> dd.columns, col_width |-> w]

\* The working details when a suggestion has a description: one column as
\* wide as the screen.
description_details(w, dd) == [columns |-> 1, col_width |-> w]

\* The working column width taken from the default width alone.
working_col_width_default(max_width, default_width) == default_width

\* The working column width: the widest padded value, or the default width
\* when no value exceeds it.
working_col_width(max_width, default_width) ==
    IF max_width > default_width THEN max_width ELSE default_width

\* The layout part of update_working_details: the working details and the
\* longest suggestion it leaves for the values vals on a screen w wide, and
\* the division by zero it stops at, if any.
Layout(vals, w, dd, wd, longest) ==
    IF exist_description(vals)
    THEN [fault |-> "none",
          wd |-> description_details(w, dd),
          longest |-> FoldMax([i \in DOMAIN vals |-> Len(vals[i].value)], 0)]
    ELSE
        LET max_width == FoldMax([i \in DOMAIN vals |-> Len(vals[i].value) + dd.col_padding], 0)
        IN
        IF dd.col_width = None /\ dd.columns = 0
        THEN [fault |-> "division_by_zero", wd |-> wd, longest |-> longest]
        ELSE
            LET default_width == IF dd.col_width # None THEN dd.col_width[1] ELSE w \div dd.columns
                col_width == working_col_width(max_width, default_width)
            IN
            IF U16(col_width) = 0
            THEN [fault |-> "division_by_zero",
                  wd |-> [columns |-> wd.columns, col_width |-> col_width],
                  longest |-> longest]
            ELSE
                LET possible_cols == w \div U16(col_width) IN
                [fault |-> "none",
                 wd |-> [columns |-> IF possible_cols > dd.columns
                                         THEN Max(dd.columns, 1)
                                         ELSE possible_cols,
                         col_width |-> col_width],
                 longest |-> longest]

\* ------------------------------------------------------------ completer
\* The completer is external: a call returns any list of a catalogue.  An entry
\* of a catalogue list gives a suggestion's value, description, trailing-space
\* flag and the start of its span; the span ends at the offset the completer
\* was called with.
Complete(cat, line, pos) ==
    [i \in DOMAIN cat |->
        [value |-> cat[i].value,
         description |-> cat[i].description,
         span |-> [start |-> Min(cat[i].start, pos), end |-> pos],
         append_whitespace |-> cat[i].append_whitespace]]

\* menu_functions::string_difference: the offset and the text of the part of
\* new_string that differs from old_string.
string_difference(new_string, old_string) ==
    LET start == CommonPrefixLen(new_string, old_string) IN
    [start |-> start, input |-> SubSeq(new_string, start + 1, Len(new_string))]

\* update_values' completer call without the test for an empty difference.
CompleterCall_empty_difference(ed, inp, obd) ==
    IF obd
    THEN IF inp # None
         THEN LET d == string_difference(ed.buffer, inp[1]) IN
              Some([line |-> d.input, pos |-> d.start])
         ELSE None
    ELSE Some([line |-> ReplaceNewlines(ed.buffer), pos |-> ed.insertion_point])

\* update_values' completer call with the buffer passed as it is.
CompleterCall_raw(ed, inp, obd) ==
    IF obd
    THEN IF inp # None
         THEN LET d == string_difference(ed.buffer, inp[1]) IN
              IF d.input # <<>> THEN Some([line |-> d.input, pos |-> d.start]) ELSE None
         ELSE None
    ELSE Some([line |-> ed.buffer, pos |-> ed.insertion_point])

\* The completer call update_values makes, if it makes one.
CompleterCall(ed, inp, obd) ==
    IF obd
    THEN IF inp # None
         THEN LET d == string_difference(ed.buffer, inp[1]) IN
              IF d.input # <<>> THEN Some([line |-> d.input, pos |-> d.start]) ELSE None
         ELSE None
    ELSE Some([line |-> ReplaceNewlines(ed.buffer), pos |-> ed.insertion_point])

\* ColumnarMenu::update_values: the values and cursor it leaves and the
\* completer calls it made, cat being what the completer answers.
update_values(ed, inp, obd, cat, vals, pos) ==
    LET call == CompleterCall(ed, inp, obd) IN
    IF call = None
    THEN [values |-> vals, pos |-> pos, calls |-> <<>>]
    ELSE LET out == Complete(cat, call[1].line, call[1].pos) IN
         [values |-> out, pos |-> reset_position,
          calls |-> <<[line |-> call[1].line, pos |-> call[1].pos, out |-> out]>>]

\* What the completer can answer to the call update_values makes from a
\* catalogue: nothing to choose when it makes no call.
Answers(catalogue, ed, inp, obd) ==
    IF CompleterCall(ed, inp, obd) = None THEN {<<>>} ELSE catalogue

\* ------------------------------------------------------------ history
\* What `last` keeps of a call: the operation, the event it submitted or
\* consumed (for can_partially_complete, `updated` is its values_updated
\* argument), the completer calls it made, its boolean result, and, for the two
\* operations that write the buffer, the editor they were given (pre) and the
\* suggestion they used (found).  arg is the number the call was given: the
\* screen width of an update cycle that computed a layout, the available lines
\* of a render or the terminal columns of menu_required_lines; num is the
\* number a query returned; shown lists the cells a render drew.
LastOf(op, ev, calls, ret, pre, found) ==
    [op |-> op, ev |-> ev, calls |-> calls, ret |-> ret, pre |-> pre, found |-> found,
     arg |-> 0, num |-> 0, shown |-> <<>>]
Last(op, ev, calls, ret) == LastOf(op, ev, calls, ret, None, None)
LastCycle(ev, calls, w) == [Last("update_working_details", ev, calls, FALSE) EXCEPT !.arg = w]

\* ------------------------------------------------------------ actions
\* menu_event keeping an event that is already pending.
menu_event_keep_pending(e) ==
    /\ fault = "none"
    /\ active' = IF e.kind = "Activate" THEN TRUE
                 ELSE IF e.kind = "Deactivate" THEN FALSE ELSE active
    /\ input' = IF e.kind = "Deactivate" THEN None ELSE input
    /\ event' = IF event = NoEvent THEN e ELSE event
    /\ last' = Last("menu_event", e, <<>>, FALSE)
    /\ UNCHANGED <<config, layout, values, cursor, editor, fault>>

\* menu_event with Deactivate leaving the snapshot in place.
menu_event_keep_snapshot(e) ==
    /\ fault = "none"
    /\ active' = IF e.kind = "Activate" THEN TRUE
                 ELSE IF e.kind = "Deactivate" THEN FALSE ELSE active
    /\ input' = input
    /\ event' = e
    /\ last' = Last("menu_event", e, <<>>, FALSE)
    /\ UNCHANGED <<config, layout, values, cursor, editor, fault>>

\* ColumnarMenu::menu_event
menu_event(e) ==
    /\ fault = "none"
    /\ active' = IF e.kind = "Activate" THEN TRUE
                 ELSE IF e.kind = "Deactivate" THEN FALSE ELSE active
    /\ input' = IF e.kind = "Deactivate" THEN None ELSE input
    /\ event' = e
    /\ last' = Last("menu_event", e, <<>>, FALSE)
    /\ UNCHANGED <<config, layout, values, cursor, editor, fault>>

\* The dispatch of update_working_details on the event ev, after the layout
\* lay was computed: the fields it leaves.
Dispatch(ev, lay, cat) ==
    LET cols == get_cols(lay.wd)
        snapshot == IF only_buffer_difference THEN Some(editor.buffer) ELSE None
        inp == IF ev.kind = "Activate" THEN snapshot ELSE input
        refresh == ev.kind \in {"Activate", "Edit"}
        start == IF refresh THEN reset_position ELSE <<col_pos, row_pos>>
        uv == IF refresh /\ ~ev.updated
                  THEN update_values(editor, inp, only_buffer_difference, cat, values, start)
                  ELSE [values |-> values, pos |-> start, calls |-> <<>>]
    IN  [active |-> IF ev.kind = "Activate" THEN TRUE
                    ELSE IF ev.kind = "Deactivate" THEN FALSE ELSE active,
         input |-> inp,
         values |-> uv.values,
         pos |-> IF refresh
                     THEN uv.pos
                     ELSE Navigate(ev.kind, col_pos, row_pos, cols, Len(values)),
         calls |-> uv.calls]

\* The pending event read without being taken.
EventAfterPeek(ev) == ev

\* `self.event.take()`: what the pending event is after the cycle read it.
EventAfterTake(ev) == NoEvent

\* ColumnarMenu::update_working_details on a screen w wide; cat is what the
\* completer answers if it is called.
update_working_details(w, cat) ==
    /\ fault = "none"
    /\ event' = EventAfterTake(event)
    /\ IF event = NoEvent
       THEN /\ last' = Last("update_working_details", NoEvent, <<>>, FALSE)
            /\ UNCHANGED <<active, input, values, cursor, layout, fault>>
       ELSE \E lay \in {Layout(values, w, default_details, working_details,
                                longest_suggestion)} :
            /\ working_details' = lay.wd
            /\ longest_suggestion' = lay.longest
            /\ fault' = lay.fault
            /\ IF lay.fault # "none"
               THEN /\ last' = LastCycle(event, <<>>, w)
                            /\ UNCHANGED <<active, input, values, cursor>>
               ELSE \E d \in {Dispatch(event, lay, cat)} :
                    /\ active' = d.active
                    /\ input' = d.input
                    /\ values' = d.values
                    /\ col_pos' = d.pos[1]
                    /\ row_pos' = d.pos[2]
                    /\ last' = LastCycle(event, d.calls, w)
    /\ UNCHANGED <<config, editor>>

\* What the completer can answer in the cycle that consumes the pending event.
CycleAnswers(catalogue) ==
    IF event.kind \in {"Activate", "Edit"} /\ ~event.updated
    THEN Answers(catalogue, editor,
                 IF event.kind = "Activate"
                     THEN (IF only_buffer_difference THEN Some(editor.buffer) ELSE None)
                     ELSE input,
                 only_buffer_difference)
    ELSE {<<>>}

\* The host calls ColumnarMenu::update_values itself.
call_update_values(cat) ==
    /\ fault = "none"
    /\ \E uv \in {update_values(editor, input, only_buffer_difference, cat, values,
                                 <<col_pos, row_pos>>)} :
        /\ values' = uv.values
        /\ col_pos' = uv.pos[1]
        /\ row_pos' = uv.pos[2]
        /\ last' = Last("update_values", NoEvent, uv.calls, FALSE)
    /\ UNCHANGED <<config, layout, active, input, event, editor, fault>>

\* The host edits the line between two calls on the menu.
HostEdit(buf, ip) ==
    /\ fault = "none"
    /\ editor # [buffer |-> buf, insertion_point |-> ip]
    /\ editor' = [buffer |-> buf, insertion_point |-> ip]
    /\ last' = Last("edit", NoEvent, <<>>, FALSE)
    /\ UNCHANGED <<config, layout, active, input, values, cursor, event, fault>>

\* ------------------------------------------------------------ buffer
\* LineBuffer::replace_range(start..end, text) on the text of the buffer.
replace_range(buf, start, end, text) ==
    SubSeq(buf, 1, start) \o text \o SubSeq(buf, end + 1, Len(buf))

\* Whether the slice [start..end] of a string of length len panics.
slice_panics(len, start, end) == start > end \/ end > len

\* menu_functions::find_common_string: the first suggestion as representative
\* and the length of the prefix all the values share; when they share none it
\* reports either no index or an index of 0.
RECURSIVE SharedPrefixLen(_, _, _)
SharedPrefixLen(first, vals, acc) ==
    IF vals = <<>> THEN acc
    ELSE SharedPrefixLen(first, Tail(vals), Min(acc, CommonPrefixLen(first, Head(vals).value)))

find_common_string(vals) ==
    IF vals = <<>>
    THEN {[suggestion |-> None, index |-> None]}
    ELSE LET k == SharedPrefixLen(vals[1].value, vals, Len(vals[1].value)) IN
         IF k = 0
         THEN {[suggestion |-> Some(vals[1]), index |-> None],
               [suggestion |-> Some(vals[1]), index |-> Some(0)]}
         ELSE {[suggestion |-> Some(vals[1]), index |-> Some(k)]}

\* `matching.starts_with(&editor.get_buffer()[span.start..span.end])`
extends_input(matching, typed) == starts_with(matching, typed)

\* The insertion point can_partially_complete sets after the splice.
partial_offset(ip, mlen, start, end) ==
    IF mlen < end - start
    THEN saturating_sub(ip, (end - start) - mlen)
    ELSE ip + mlen - (end - start)

\* The part of can_partially_complete after its first refresh left the values
\* vals and the cursor pos: found is what find_common_string reported, cat2
\* what the completer answers to the refresh after the splice.
PartialOutcome(found, vals, pos, ed, inp, obd, cat2) ==
    LET rejected == [fault |-> "none", editor |-> ed, values |-> vals, pos |-> pos,
                     calls |-> <<>>, ret |-> FALSE]
    IN
    IF found.suggestion = None \/ found.index = None
    THEN rejected
    ELSE
        LET value == found.suggestion[1].value
            span == found.suggestion[1].span
            idx == Min(found.index[1], Len(value))
            matching == SubSeq(value, 1, idx)
        IN
        IF slice_panics(Len(ed.buffer), span.start, span.end)
        THEN [rejected EXCEPT !.fault = "out_of_range"]
        ELSE
            IF matching # <<>>
                /\ extends_input(matching, SubSeq(ed.buffer, span.start + 1, span.end))
            THEN
                LET new_ed == [buffer |-> replace_range(ed.buffer, span.start, span.end, matching),
                               insertion_point |->
                                   partial_offset(ed.insertion_point, Len(matching),
                                                  span.start, span.end)]
                    uv == update_values(new_ed, inp, obd, cat2, vals, pos)
                IN  [fault |-> "none", editor |-> new_ed, values |-> uv.values, pos |-> uv.pos,
                     calls |-> uv.calls, ret |-> TRUE]
            ELSE rejected

\* What the completer can answer to the refresh after the splice: nothing to
\* choose when can_partially_complete does not get there or makes no call.
SecondAnswers(catalogue, found, vals, pos, ed, inp, obd) ==
    LET o == PartialOutcome(found, vals, pos, ed, inp, obd, <<>>) IN
    IF o.ret THEN Answers(catalogue, o.editor, inp, obd) ELSE {<<>>}

\* ColumnarMenu::can_partially_complete; cat1 is what the completer answers
\* to the refresh before the splice, and the refresh after the splice is
\* answered from the catalogue.
can_partially_complete(values_updated, cat1, catalogue) ==
    /\ fault = "none"
    /\ \E uv1 \in {IF values_updated
                      THEN [values |-> values, pos |-> <<col_pos, row_pos>>, calls |-> <<>>]
                      ELSE update_values(editor, input, only_buffer_difference, cat1, values,
                                         <<col_pos, row_pos>>)} :
           \E found \in find_common_string(uv1.values) :
           \E cat2 \in SecondAnswers(catalogue, found, uv1.values, uv1.pos, editor, input,
                                     only_buffer_difference) :
           \E o \in {PartialOutcome(found, uv1.values, uv1.pos, editor, input,
                                       only_buffer_difference, cat2)} :
                   /\ Len(o.editor.buffer) <= MaxLine
                   /\ editor' = o.editor
                   /\ values' = o.values
                   /\ col_pos' = o.pos[1]
                   /\ row_pos' = o.pos[2]
                   /\ fault' = o.fault
                   /\ last' = LastOf("can_partially_complete", EvU("None", values_updated),
                                     uv1.calls \o o.calls, o.ret, Some(editor), Some(found))
    /\ UNCHANGED <<config, layout, active, input, event>>

\* ColumnarMenu::get_value
get_value(vals, col, row, wd) ==
    LET i == index(col, row, get_cols(wd)) IN
    IF i < Len(vals) THEN Some(vals[i + 1]) ELSE None

\* The insertion point advanced by the inserted text only.
commit_offset_no_shift(ip, vlen, start, end) == ip + vlen

\* The insertion point replace_in_buffer sets after the splice.
commit_offset(ip, vlen, start, end) ==
    saturating_sub(ip + vlen, saturating_sub(end, start))

\* The editor replace_in_buffer leaves when the suggestion sug is selected.
Commit(ed, sug) ==
    LET start == Min(sug.span.start, Len(ed.buffer))
        end == Min(sug.span.end, Len(ed.buffer))
        value == IF sug.append_whitespace THEN Append(sug.value, " ") ELSE sug.value
    IN  [buffer |-> replace_range(ed.buffer, start, end, value),
         insertion_point |-> commit_offset(ed.insertion_point, Len(value), start, end)]

\* ColumnarMenu::replace_in_buffer
replace_in_buffer ==
    /\ fault = "none"
    /\ LET sel == get_value(values, col_pos, row_pos, working_details) IN
        /\ sel # None => Len(Commit(editor, sel[1]).buffer) <= MaxLine
        /\ editor' = IF sel = None THEN editor ELSE Commit(editor, sel[1])
        /\ last' = LastOf("replace_in_buffer", NoEvent, <<>>, FALSE, Some(editor), sel)
    /\ UNCHANGED <<config, layout, active, input, values, cursor, event, fault>>

\* ------------------------------------------------------------ queries
\* ColumnarMenu.min_rows, as ColumnarMenu::default sets it.
MinRows == 3

\* ColumnarMenu::min_rows
min_rows ==
    /\ fault = "none"
    /\ last' = [Last("min_rows", NoEvent, <<>>, FALSE)
                   EXCEPT !.num = Min(get_rows(Len(values), get_cols(working_details)), MinRows)]
    /\ UNCHANGED <<config, layout, active, input, values, cursor, event, editor, fault>>

\* ColumnarMenu::menu_required_lines
menu_required_lines(terminal_columns) ==
    /\ fault = "none"
    /\ last' = [Last("menu_required_lines", NoEvent, <<>>, FALSE)
                   EXCEPT !.arg = terminal_columns,
                          !.num = get_rows(Len(values), get_cols(working_details))]
    /\ UNCHANGED <<config, layout, active, input, values, cursor, event, editor, fault>>

\* The skipped values counted from the cursor row less the available lines,
\* without the one more line.
skip_values_short(row, available_lines, cols) ==
    IF row >= available_lines
        THEN U16(saturating_sub(row, available_lines) * cols)
        ELSE 0

\* The number of values menu_string skips: whole rows, so that the cursor's
\* row is the last of the available lines.
skip_values(row, available_lines, cols) ==
    IF row >= available_lines
        THEN U16(U16(saturating_sub(row, available_lines) + 1) * cols)
        ELSE 0

\* The number of values menu_string takes after the skipped ones.
available_values(available_lines, cols) == U16(available_lines * cols)

\* The cells menu_string draws, in order: the index of each value drawn and
\* the column it is drawn in; none when the list is empty and the "no
\* records" message is drawn instead.
Cells(vals, row, cols, available_lines) ==
    LET skip == skip_values(row, available_lines, cols)
        take == available_values(available_lines, cols)
        count == Min(take, saturating_sub(Len(vals), skip))
    IN  [i \in 1..count |-> [index |-> skip + i - 1, column |-> U16(skip + i - 1) % cols]]

\* Whether one of the u16 products and sums of menu_string exceeds u16: the
\* skipped lines plus one, the skipped lines times the columns, the available
\* lines times the columns.  None is computed for an empty list.
menu_string_overflows(vals, row, cols, available_lines) ==
    /\ vals # <<>>
    /\ \/ available_lines * cols >= 65536
       \/ /\ row >= available_lines
          /\ \/ saturating_sub(row, available_lines) + 1 >= 65536
             \/ (saturating_sub(row, available_lines) + 1) * cols >= 65536

\* ColumnarMenu::menu_string.  Where a product exceeds u16 the build decides:
\* with overflow checks the call panics, without them the product wraps.
menu_string(available_lines) ==
    /\ fault = "none"
    /\ fault' \in IF menu_string_overflows(values, row_pos, get_cols(working_details),
                                            available_lines)
                      THEN {"arithmetic_overflow", "none"}
                      ELSE {"none"}
    /\ last' = [Last("menu_string", NoEvent, <<>>, FALSE)
                   EXCEPT !.arg = available_lines,
                          !.shown = IF fault' = "none"
                                        THEN Cells(values, row_pos, get_cols(working_details),
                                                   available_lines)
                                        ELSE <<>>]
    /\ UNCHANGED <<config, layout, active, input, values, cursor, event, editor>>

\* ------------------------------------------------------------ inputs
\* Suggestion lists of the navigation and layout runs: n one-letter values, the
\* first one made long or given a description.
Entry(v, d) == [value |-> v, description |-> d, append_whitespace |-> FALSE, start |-> 0]
NavKindsOfList == {"plain", "long", "described"}
NavList(n, k) ==
    [i \in 1..n |->
        IF i = 1 /\ k = "long" THEN Entry(<<"a", "a", "a">>, None)
        ELSE IF i = 1 /\ k = "described" THEN Entry(<<"a">>, Some(<<"d">>))
        ELSE Entry(<<"a">>, None)]
NavCatalogue == {NavList(n, k) : n \in 0..MaxValues, k \in NavKindsOfList}

Widths == {NarrowWidth, MaxWidth}
NavBuffers == Strs({"\n"}, MaxBuffer)

\* ColumnarMenu::default, then the builder: with_columns, with_column_width,
\* with_column_padding, with_only_buffer_difference.
Init ==
    /\ active = FALSE
    /\ default_details \in [columns : 0..MaxColumns, col_width : {None, Some(0)},
                            col_padding : {1}]
    /\ working_details = [columns |-> 0, col_width |-> 0]
    /\ values = <<>>
    /\ col_pos = 0
    /\ row_pos = 0
    /\ event = NoEvent
    /\ longest_suggestion = 0
    /\ input = None
    /\ only_buffer_difference \in BOOLEAN
    /\ editor = [buffer |-> <<>>, insertion_point |-> 0]
    /\ fault = "none"
    /\ last = Last("new", NoEvent, <<>>, FALSE)

Next ==
    \/ \E e \in MenuEvents : menu_event(e)
    \/ \E w \in Widths : \E cat \in CycleAnswers(NavCatalogue) : update_working_details(w, cat)
    \/ \E cat \in Answers(NavCatalogue, editor, input, only_buffer_difference) :
            call_update_values(cat)
    \/ \E buf \in NavBuffers, ip \in 0..MaxBuffer : ip <= Len(buf) /\ HostEdit(buf, ip)

Spec == Init /\ [][Next]_vars

\* ---------------------------------------------------- navigation on one screen
\* The menu on a terminal that is never resized.
NextNav ==
    \/ \E e \in MenuEvents : menu_event(e)
    \/ \E cat \in CycleAnswers(NavCatalogue) : update_working_details(MaxWidth, cat)
    \/ \E cat \in Answers(NavCatalogue, editor, input, only_buffer_difference) :
            call_update_values(cat)
    \/ \E buf \in NavBuffers, ip \in 0..MaxBuffer : ip <= Len(buf) /\ HostEdit(buf, ip)

SpecNav == Init /\ [][NextNav]_vars

\* ---------------------------------------------------- layout
\* The menu built with every column count, fixed width and padding, refreshed
\* and laid out on both screens.
LayoutColumnWidths == {None, Some(0), Some(FixedColumn), Some(WideColumn)}
LayoutEvents == {EvU("Activate", FALSE), EvU("Edit", TRUE), Ev("MoveRight")}

InitLayout ==
    /\ active = FALSE
    /\ default_details \in [columns : 0..MaxColumns, col_width : LayoutColumnWidths,
                            col_padding : 1..MaxPadding]
    /\ working_details = [columns |-> 0, col_width |-> 0]
    /\ values = <<>>
    /\ col_pos = 0
    /\ row_pos = 0
    /\ event = NoEvent
    /\ longest_suggestion = 0
    /\ input = None
    /\ only_buffer_difference = FALSE
    /\ editor = [buffer |-> <<>>, insertion_point |-> 0]
    /\ fault = "none"
    /\ last = Last("new", NoEvent, <<>>, FALSE)

NextLayout ==
    \/ \E e \in LayoutEvents : menu_event(e)
    \/ \E w \in Widths : \E cat \in CycleAnswers(NavCatalogue) : update_working_details(w, cat)

SpecLayout == InitLayout /\ [][NextLayout]_vars

\* ---------------------------------------------------- rendering
\* The default menu in one or two columns on the wide screen, walked through
\* lists long enough to scroll, asked for its rows and rendered.
RenderCatalogue == {NavList(n, "plain") : n \in 0..MaxRenderValues}
RenderLines == (0..MaxLines) \cup {ManyLines}
RenderEvents == {EvU("Activate", FALSE), Ev("NextElement"), Ev("MoveDown")}

InitRender ==
    /\ active = FALSE
    /\ default_details \in [columns : 1..2, col_width : {None}, col_padding : {1}]
    /\ working_details = [columns |-> 0, col_width |-> 0]
    /\ values = <<>>
    /\ col_pos = 0
    /\ row_pos = 0
    /\ event = NoEvent
    /\ longest_suggestion = 0
    /\ input = None
    /\ only_buffer_difference = FALSE
    /\ editor = [buffer |-> <<>>, insertion_point |-> 0]
    /\ fault = "none"
    /\ last = Last("new", NoEvent, <<>>, FALSE)

NextRender ==
    \/ \E e \in RenderEvents : menu_event(e)
    \/ \E cat \in CycleAnswers(RenderCatalogue) : update_working_details(MaxWidth, cat)
    \/ min_rows
    \/ \E terminal_columns \in Widths : menu_required_lines(terminal_columns)
    \/ \E available_lines \in RenderLines : menu_string(available_lines)

SpecRender == InitRender /\ [][NextRender]_vars

\* ---------------------------------------------------- the grid
\* The default menu in one to three columns, resized between the two
\* screens, walked over lists of several rows with every navigation event.
GridEvents == {EvU("Activate", FALSE), EvU("Edit", TRUE)} \cup {Ev(k) : k \in NavKinds}

InitGrid ==
    /\ active = FALSE
    /\ default_details \in [columns : 1..MaxColumns, col_width : {None}, col_padding : {1}]
    /\ working_details = [columns |-> 0, col_width |-> 0]
    /\ values = <<>>
    /\ col_pos = 0
    /\ row_pos = 0
    /\ event = NoEvent
    /\ longest_suggestion = 0
    /\ input = None
    /\ only_buffer_difference = FALSE
    /\ editor = [buffer |-> <<>>, insertion_point |-> 0]
    /\ fault = "none"
    /\ last = Last("new", NoEvent, <<>>, FALSE)

NextGrid ==
    \/ \E e \in GridEvents : menu_event(e)
    \/ \E w \in Widths : \E cat \in CycleAnswers(RenderCatalogue) : update_working_details(w, cat)

SpecGrid == InitGrid /\ [][NextGrid]_vars

\* ---------------------------------------------------- the completion bridge
\* The suggestion texts of the completion runs with every span start; a
\* completion that is the only one gets the trailing space.
TextValues ==
    {<<>>,
     << <<"a", "a">> >>,
     << <<"a", "a">>, <<"a", "b">> >>,
     << <<"a", "a">>, <<"b">> >>}
TextList(vs, st) ==
    [i \in DOMAIN vs |->
        [value |-> vs[i], description |-> None, append_whitespace |-> (Len(vs) = 1),
         start |-> st]]
TextCatalogue == {TextList(vs, st) : vs \in TextValues, st \in 0..MaxText}
TextBuffers == Strs({"a", "b"}, MaxText)
BridgeEvents == {EvU("Activate", FALSE), Ev("Deactivate"), Ev("NextElement")}

\* ColumnarMenu::default with either refresh mode.
InitBridge ==
    /\ active = FALSE
    /\ default_details = [columns |-> 4, col_width |-> None, col_padding |-> 2]
    /\ working_details = [columns |-> 0, col_width |-> 0]
    /\ values = <<>>
    /\ col_pos = 0
    /\ row_pos = 0
    /\ event = NoEvent
    /\ longest_suggestion = 0
    /\ input = None
    /\ only_buffer_difference \in BOOLEAN
    /\ editor = [buffer |-> <<>>, insertion_point |-> 0]
    /\ fault = "none"
    /\ last = Last("new", NoEvent, <<>>, FALSE)

NextBridge ==
    \/ \E e \in BridgeEvents : menu_event(e)
    \/ \E cat \in CycleAnswers(TextCatalogue) : update_working_details(BridgeWidth, cat)
    \/ \E cat \in Answers(TextCatalogue, editor, input, only_buffer_difference) :
            call_update_values(cat)
    \/ \E cat1 \in Answers(TextCatalogue, editor, input, only_buffer_difference) :
            can_partially_complete(FALSE, cat1, TextCatalogue)
    \/ can_partially_complete(TRUE, <<>>, TextCatalogue)
    \/ replace_in_buffer
    \/ \E buf \in TextBuffers, ip \in 0..MaxText : ip <= Len(buf) /\ HostEdit(buf, ip)

SpecBridge == InitBridge /\ [][NextBridge]_vars

\* ------------------------------------------------------------------ properties
Cols == get_cols(working_details)
AfterCycle == last.op = "update_working_details" /\ fault = "none"
AfterEvent(kinds) == AfterCycle /\ last.ev.kind \in kinds

\* C1: after any completed update cycle the cursor is a valid index into a
\* non-empty value list (row_pos * get_cols() + col_pos < len(values)), and
\* it is (0, 0) when the value list is empty.
C1_CursorValid ==
    AfterCycle =>
        IF values # <<>>
            THEN row_pos * Cols + col_pos < Len(values)
            ELSE col_pos = 0 /\ row_pos = 0

\* C2: at the end of every update cycle that consumed an event the working
\* layout (columns, column width, longest suggestion) is the one the layout
\* engine computes from the current value list on one of the screens.
C2_LayoutFresh ==
    (AfterCycle /\ last.ev # NoEvent) =>
        \E w \in Widths :
            LET l == Layout(values, w, default_details, working_details, longest_suggestion)
            IN  l.fault = "none" /\ l.wd = working_details /\ l.longest = longest_suggestion

\* C3: the update cycle never stops at a division by zero, whatever the default
\* column count, fixed width, padding, values and screen width, and it leaves
\* get_cols() >= 1.
C3_CycleTotal == fault # "division_by_zero" /\ Cols >= 1

\* C4: at every cursor the navigation events reach over a fixed value list and
\* layout, NextElement then PreviousElement, and PreviousElement then
\* NextElement, both return the cursor to where it was.
C4_PreviousInvertsNext ==
    AfterEvent(NavKinds) =>
        LET n == Len(values)
            nx == move_next(col_pos, row_pos, Cols, n)
            pv == move_previous(col_pos, row_pos, Cols, n)
        IN  /\ move_previous(nx[1], nx[2], Cols, n) = <<col_pos, row_pos>>
            /\ move_next(pv[1], pv[2], Cols, n) = <<col_pos, row_pos>>

\* The cursors NextElement visits in k steps from (col, row), the start first.
RECURSIVE NextWalk(_, _, _, _, _)
NextWalk(col, row, cols, n, k) ==
    IF k = 0 THEN <<>>
    ELSE LET nx == move_next(col, row, cols, n) IN
         <<nx>> \o NextWalk(nx[1], nx[2], cols, n, k - 1)

WalkValid(walk, cols, n) == \A i \in DOMAIN walk : walk[i][2] * cols + walk[i][1] < n

\* C5 as stated: over a non-empty value list, NextElement applied
\* rows * columns times returns the cursor to its start, and the index is
\* below len(values) after each of those steps.
C5_NextCycleRowsTimesCols ==
    values # <<>> =>
        LET n == Len(values)
            walk == NextWalk(col_pos, row_pos, Cols, n, get_rows(n, Cols) * Cols)
        IN  /\ walk[Len(walk)] = <<col_pos, row_pos>>
            /\ WalkValid(walk, Cols, n)

\* C5 amended: over a non-empty value list the index is below len(values)
\* after every NextElement step from any cursor, and NextElement applied
\* len(values) times from a cursor that is a valid index returns to it.
C5_NextCycleLenTimes ==
    values # <<>> =>
        LET n == Len(values)
            walk == NextWalk(col_pos, row_pos, Cols, n, n)
        IN  /\ WalkValid(walk, Cols, n)
            /\ (row_pos * Cols + col_pos < n /\ col_pos < Cols)
                   => walk[n] = <<col_pos, row_pos>>

\* NextElement reset the cursor to the origin from the last value of a list
\* whose last row is partial.
C5_Witness ==
    /\ AfterEvent({"NextElement"})
    /\ Len(values) > Cols
    /\ Len(values) % Cols # 0
    /\ col_pos = 0 /\ row_pos = 0

\* ---- partial completion and commit, over the behaviours of SpecBridge
\* What find_common_string reported to the can_partially_complete call that
\* `last` records, the prefix it names and the buffer text in its span.
PrefixOf(found) ==
    SubSeq(found.suggestion[1].value, 1, Min(found.index[1], Len(found.suggestion[1].value)))
TypedIn(found, ed) ==
    SubSeq(ed.buffer, found.suggestion[1].span.start + 1, found.suggestion[1].span.end)
SpanInBuffer(found, ed) ==
    /\ found.suggestion[1].span.start <= found.suggestion[1].span.end
    /\ found.suggestion[1].span.end <= Len(ed.buffer)
HasPrefix(found) == found.suggestion # None /\ found.index # None

\* C6: can_partially_complete returns false and leaves the buffer text and the
\* insertion point unchanged whenever the suggestions have no common prefix,
\* the prefix is empty, or the prefix does not strictly extend the text typed
\* in the representative suggestion's span (the typed text equal to the prefix
\* included).
C6_PartialRejects ==
    [][(/\ last'.op = "can_partially_complete"
        /\ fault' = "none"
        /\ LET found == last'.found[1] IN
           \/ ~HasPrefix(found)
           \/ PrefixOf(found) = <<>>
           \/ /\ SpanInBuffer(found, editor)
              /\ \/ ~starts_with(PrefixOf(found), TypedIn(found, editor))
                 \/ PrefixOf(found) = TypedIn(found, editor))
       => (last'.ret = FALSE /\ editor' = editor)]_vars

\* The step is a can_partially_complete call whose suggestions share a
\* non-empty prefix that starts with the buffer text in the span.
PartialAcceptCase ==
    /\ last'.op = "can_partially_complete"
    /\ HasPrefix(last'.found[1])
    /\ SpanInBuffer(last'.found[1], editor)
    /\ PrefixOf(last'.found[1]) # <<>>
    /\ starts_with(PrefixOf(last'.found[1]), TypedIn(last'.found[1], editor))

\* The step spliced the prefix into the span, moved the insertion point and
\* refreshed the values from the completer against the new buffer.
PartialAcceptEffect ==
    LET found == last'.found[1]
        span == found.suggestion[1].span
        prefix == PrefixOf(found)
        moved == editor.insertion_point + Len(prefix) - (span.end - span.start)
        call == CompleterCall(editor', input, only_buffer_difference)
        k == Len(last'.calls)
    IN  /\ fault' = "none"
        /\ last'.ret = TRUE
        /\ editor'.buffer = SubSeq(editor.buffer, 1, span.start) \o prefix
                              \o SubSeq(editor.buffer, span.end + 1, Len(editor.buffer))
        /\ editor'.insertion_point = Max(moved, 0)
        /\ call # None
        /\ k >= 1
        /\ last'.calls[k].line = call[1].line
        /\ last'.calls[k].pos = call[1].pos
        /\ values' = last'.calls[k].out
        /\ col_pos' = 0 /\ row_pos' = 0

\* C7: when the suggestions share a non-empty prefix that starts with the
\* buffer text in the representative span [start, end), can_partially_complete
\* returns true, the buffer becomes old[0..start] + prefix + old[end..], the
\* insertion point moves by len(prefix) - (end - start), floored at 0, and the
\* values are then refreshed from the completer against the new buffer with
\* the cursor reset to (0, 0).
C7_PartialAccepts ==
    [][PartialAcceptCase => PartialAcceptEffect]_vars

C9_SpansClamped == fault # "out_of_range"

\* C10: with only_buffer_difference = false, the cycle that consumes
\* Activate(false) or Edit(false) calls the completer once, with the buffer
\* with every newline replaced by a space and the insertion point, and leaves
\* exactly its answer as the values and the cursor at (0, 0).
C10_FullRefresh ==
    [][(/\ ~only_buffer_difference
        /\ last'.op = "update_working_details"
        /\ fault' = "none"
        /\ event.kind \in {"Activate", "Edit"}
        /\ ~event.updated)
       => (/\ Len(last'.calls) = 1
           /\ last'.calls[1].line = ReplaceNewlines(editor.buffer)
           /\ last'.calls[1].pos = editor.insertion_point
           /\ values' = last'.calls[1].out
           /\ col_pos' = 0 /\ row_pos' = 0)]_vars

\* A full refresh of a buffer that holds a newline returned several values.
C10_Witness ==
    /\ AfterEvent({"Activate", "Edit"})
    /\ ~last.ev.updated
    /\ ~only_buffer_difference
    /\ \E i \in DOMAIN editor.buffer : editor.buffer[i] = "\n"
    /\ Len(last.calls) = 1
    /\ last.calls[1].line = <<" ">>
    /\ values = last.calls[1].out
    /\ Len(values) > 1

\* C11: with only_buffer_difference = true, update_values leaves the values
\* and the cursor unchanged and makes no completer call when there is no
\* snapshot or the difference between the buffer and the snapshot is empty;
\* otherwise it calls the completer with only the differing text and its start
\* offset, replaces the values and resets the cursor to (0, 0).
C11_DeltaRefresh ==
    [][(last'.op = "update_values" /\ only_buffer_difference)
       => IF input = None \/ string_difference(editor.buffer, input[1]).input = <<>>
          THEN /\ last'.calls = <<>>
               /\ values' = values
               /\ col_pos' = col_pos /\ row_pos' = row_pos
          ELSE LET d == string_difference(editor.buffer, input[1]) IN
               /\ Len(last'.calls) = 1
               /\ last'.calls[1].line = d.input
               /\ last'.calls[1].pos = d.start
               /\ values' = last'.calls[1].out
               /\ col_pos' = 0 /\ row_pos' = 0]_vars

\* A delta refresh sent the completer the text typed after a kept prefix and
\* took its answer.
C11_Witness ==
    /\ last.op = "update_values"
    /\ only_buffer_difference
    /\ input # None
    /\ Len(last.calls) = 1
    /\ last.calls[1].pos >= 1
    /\ last.calls[1].line # <<>>
    /\ values = last.calls[1].out
    /\ values # <<>>

\* ---- layout, over the behaviours of SpecLayout
\* The step is an update cycle that consumed an event and completed.
CycleStep == last'.op = "update_working_details" /\ event # NoEvent /\ fault' = "none"
MaxOf(S) == CHOOSE m \in S : \A x \in S : x <= m
PaddedLengths(vals, padding) == {Len(vals[i].value) + padding : i \in DOMAIN vals}

\* C12: after an update cycle that consumed an event while a suggestion of
\* the value list had a description, the column count is exactly 1 and the
\* column width is the screen width of that cycle, whatever the default
\* column count, fixed width and padding.
C12_DescriptionLayout ==
    [][(last'.op = "update_working_details" /\ event # NoEvent /\ exist_description(values))
       => (/\ fault' = "none"
           /\ working_details'.columns = 1
           /\ get_cols(working_details') = 1
           /\ working_details'.col_width = last'.arg)]_vars

\* A menu with several default columns and a fixed width laid out a described
\* list in one column as wide as the wide screen.
C12_Witness ==
    /\ AfterEvent({"Edit"})
    /\ exist_description(values)
    /\ Len(values) > 1
    /\ default_details.columns > 1
    /\ default_details.col_width = Some(FixedColumn)
    /\ last.arg = MaxWidth
    /\ working_details = [columns |-> 1, col_width |-> MaxWidth]

\* C13: when no suggestion has a description, after layout the column width
\* is max(widest len(value) + padding, default_width), default_width being
\* the fixed width or else screen_width / default_columns, and the effective
\* column count is min(default columns, screen_width / column_width), never
\* below 1.
C13_ColumnLayout ==
    [][(CycleStep /\ ~exist_description(values))
       => LET w == last'.arg
              max_width == MaxOf(PaddedLengths(values, default_details.col_padding) \cup {0})
              default_width == IF default_details.col_width # None
                                   THEN default_details.col_width[1]
                                   ELSE w \div default_details.columns
              col_width == Max(max_width, default_width)
          IN  /\ working_details'.col_width = col_width
              /\ get_cols(working_details')
                     = Max(1, Min(default_details.columns, w \div col_width))]_vars

\* C14 as stated: without descriptions, after layout every suggestion has
\* len(value) + padding <= column width, and columns * column width <= the
\* screen width.
C14_FitsColumnAndScreen ==
    [][(CycleStep /\ ~exist_description(values))
       => (/\ \A i \in DOMAIN values :
                  Len(values[i].value) + default_details.col_padding
                      <= working_details'.col_width
           /\ get_cols(working_details') * working_details'.col_width <= last'.arg)]_vars

\* C14 amended: without descriptions, after layout every suggestion has
\* len(value) + padding <= column width, and columns * column width <= the
\* screen width whenever the column width itself is at most the screen width.
C14_FitsColumnAndScreenIfNarrow ==
    [][(CycleStep /\ ~exist_description(values))
       => (/\ \A i \in DOMAIN values :
                  Len(values[i].value) + default_details.col_padding
                      <= working_details'.col_width
           /\ working_details'.col_width <= last'.arg
                  => get_cols(working_details') * working_details'.col_width <= last'.arg)]_vars

\* A value wider than the default width set the column width, and the grid
\* fits the screen.
C14_Witness ==
    /\ AfterEvent({"Edit"})
    /\ ~exist_description(values)
    /\ default_details.col_width = None
    /\ default_details.columns > 1
    /\ \E i \in DOMAIN values :
           Len(values[i].value) + default_details.col_padding = working_details.col_width
    /\ working_details.col_width > last.arg \div default_details.columns
    /\ Cols * working_details.col_width <= last.arg

\* ---- rows and rendering, over the behaviours of SpecRender
\* ceil(n / cols), and 1 for no values.
RowsCeil(n, cols) ==
    IF n = 0 THEN 1 ELSE CHOOSE r \in 1..n : r * cols >= n /\ (r - 1) * cols < n

\* C15: in every state get_rows() is ceil(len(values) / get_cols()) for a
\* non-empty list and 1 for an empty one; menu_required_lines returns it for
\* any terminal width and min_rows returns the smaller of it and the floor.
C15_RowCount ==
    LET rows == RowsCeil(Len(values), Cols) IN
    /\ get_rows(Len(values), Cols) = rows
    /\ last.op = "menu_required_lines" => last.num = rows
    /\ last.op = "min_rows" => last.num = Min(rows, MinRows)

\* min_rows returned the floor for a list of more rows.
C15_Witness ==
    /\ last.op = "min_rows"
    /\ Cols = 1
    /\ Len(values) > MinRows
    /\ last.num = MinRows

\* The grid rows of the cells a render drew.
ShownRows == {last.shown[i].index \div Cols : i \in DOMAIN last.shown}
\* At most available_lines * columns consecutive values from a whole-row offset.
ShownIsWindow ==
    /\ Len(last.shown) <= last.arg * Cols
    /\ \A i \in DOMAIN last.shown : last.shown[i].index = last.shown[1].index + i - 1
    /\ last.shown # <<>> => last.shown[1].index % Cols = 0

C16_PendingEvent ==
    [][/\ last'.op = "menu_event" => event' = last'.ev
       /\ last'.op = "update_working_details"
              => (/\ last'.ev = event
                  /\ event' = NoEvent
                  /\ event = NoEvent
                         => (/\ UNCHANGED <<cursor, values, layout, active, input, editor>>
                             /\ last'.calls = <<>>))]_vars

\* A cycle with no pending event ran on a menu that is active, has values and
\* has its cursor off the origin.
C16_Witness ==
    /\ last.op = "update_working_details"
    /\ last.ev = NoEvent
    /\ event = NoEvent
    /\ active
    /\ Len(values) > 1
    /\ <<col_pos, row_pos>> # <<0, 0>>

\* C17: submitting PreviousPage or NextPage, and the update cycle that
\* consumes it, leave the cursor, the values, the active flag and the snapshot
\* as they were, do not touch the buffer and do not call the completer.
C17_PageEventsNoChange ==
    [][(\/ last'.op = "menu_event" /\ last'.ev.kind \in PageKinds
        \/ last'.op = "update_working_details" /\ event.kind \in PageKinds)
       => (/\ UNCHANGED <<cursor, values, active, input, editor>>
           /\ last'.calls = <<>>)]_vars

\* A page event was consumed on an active menu with its cursor on the second
\* row.
C17_Witness ==
    /\ AfterEvent(PageKinds)
    /\ active
    /\ Len(values) > 1
    /\ row_pos > 0

\* C19: the snapshot is present only if only_buffer_difference is true and
\* the menu is active; submitting Deactivate clears the active flag and the
\* snapshot; a cycle that consumes Activate sets the snapshot to the buffer in
\* delta mode and to none otherwise.
C19_ActivationState ==
    [][/\ input' # None => (only_buffer_difference /\ active')
       /\ (last'.op = "menu_event" /\ last'.ev.kind = "Deactivate")
              => (~active' /\ input' = None)
       /\ (CycleStep /\ event.kind = "Activate")
              => (/\ active'
                  /\ input' = IF only_buffer_difference THEN Some(editor.buffer) ELSE None)]_vars

\* Activate was consumed in delta mode and the snapshot holds the typed line.
C19_Witness ==
    /\ AfterEvent({"Activate"})
    /\ only_buffer_difference
    /\ active
    /\ editor.buffer # <<>>
    /\ input = Some(editor.buffer)

\* C20: the cycle that consumes Activate(updated) or Edit(updated) resets the
\* cursor to (0, 0); with updated true it leaves the values and makes no
\* completer call; with updated false it runs update_values once: the full
\* refresh, or the delta refresh against the snapshot the cycle left.
C20_ActivateEditRefresh ==
    [][(CycleStep /\ event.kind \in {"Activate", "Edit"})
       => (/\ col_pos' = 0 /\ row_pos' = 0
           /\ IF event.updated
              THEN values' = values /\ last'.calls = <<>>
              ELSE LET call == CompleterCall(editor, input', only_buffer_difference) IN
                   IF call = None
                   THEN values' = values /\ last'.calls = <<>>
                   ELSE /\ Len(last'.calls) = 1
                        /\ last'.calls[1].line = call[1].line
                        /\ last'.calls[1].pos = call[1].pos
                        /\ values' = last'.calls[1].out)]_vars

\* Edit(true) was consumed: the values stayed and the cursor is at the origin.
C20_Witness ==
    /\ AfterEvent({"Edit"})
    /\ last.ev.updated
    /\ last.calls = <<>>
    /\ Len(values) > 1
    /\ <<col_pos, row_pos>> = <<0, 0>>

\* ---- the directional moves, over the behaviours of SpecNav
\* The step submits a navigation event.
NavSubmitStep == last'.op = "menu_event" /\ last'.ev.kind \in NavKinds
\* The step is a completed update cycle that consumed a navigation event.
NavCycleStep == CycleStep /\ event.kind \in NavKinds

\* C21: MoveUp and MoveDown leave col_pos unchanged, MoveLeft and MoveRight
\* leave row_pos unchanged, and no navigation event, submitted or consumed,
\* changes the values, the active flag, the snapshot or the buffer or calls
\* the completer.  MoveDown goes to row 0 when the next row is past the last
\* row or the cell below is beyond the value count, and one row down
\* otherwise; MoveRight goes to column 0 when the next column is past the
\* column count or the next cell would pass the last value, and one column
\* right otherwise.
C21_DirectionalMoves ==
    [][/\ NavSubmitStep => UNCHANGED <<cursor, values, active, input, editor>>
       /\ NavCycleStep
              => LET n == Len(values)
                     cols == get_cols(working_details')
                 IN  /\ UNCHANGED <<values, active, input, editor>>
                     /\ last'.calls = <<>>
                     /\ event.kind \in {"MoveUp", "MoveDown"} => col_pos' = col_pos
                     /\ event.kind \in {"MoveLeft", "MoveRight"} => row_pos' = row_pos
                     /\ event.kind = "MoveDown"
                            => row_pos' = IF \/ row_pos + 1 >= RowsCeil(n, cols)
                                             \/ (row_pos + 1) * cols + col_pos >= n
                                              THEN 0
                                              ELSE row_pos + 1
                     /\ event.kind = "MoveRight"
                            => col_pos' = IF \/ col_pos + 1 >= cols
                                             \/ row_pos * cols + col_pos + 1 >= n
                                              THEN 0
                                              ELSE col_pos + 1]_vars

\* MoveDown was consumed in delta mode with a snapshot held, in the second
\* column of a grid of three values in two columns: the cell below is beyond
\* the value count and the cursor is on row 0.
C21_Witness ==
    /\ AfterEvent({"MoveDown"})
    /\ only_buffer_difference
    /\ input # None
    /\ active
    /\ Len(values) = 3
    /\ Cols = 2
    /\ col_pos = 1
    /\ row_pos = 0

\* ---- the cursor on the grid, over the behaviours of SpecGrid
\* The cursor (col, row) is a cell of the grid that holds one of n values.
ValidCursor(col, row, cols, n) == row * cols + col < n /\ col < cols

\* C22: a completed update cycle that consumes any event but MoveLeft and
\* leaves the value list and the working layout as they were takes a valid
\* cursor (row * columns + column < len(values), column < columns) to a valid
\* cursor: NextElement, PreviousElement, MoveUp, MoveDown and MoveRight keep
\* the cursor in range.
C22_MovesKeepValid ==
    [][(/\ CycleStep
        /\ event.kind # "MoveLeft"
        /\ values' = values
        /\ working_details' = working_details
        /\ ValidCursor(col_pos, row_pos, Cols, Len(values)))
       => ValidCursor(col_pos', row_pos', Cols, Len(values))]_vars

\* MoveUp was consumed on seven values in three columns and the cursor is in
\* the second column of the middle row: from row 0 it wrapped past the last
\* row, which has no value in that column.
C22_Witness ==
    /\ AfterEvent({"MoveUp"})
    /\ Len(values) = 7
    /\ Cols = 3
    /\ col_pos = 1
    /\ row_pos = 1

\* The linear indexes NextElement visits in n steps from (col, row).
WalkIndexes(col, row, cols, n) ==
    LET walk == NextWalk(col, row, cols, n, n) IN
    {walk[i][2] * cols + walk[i][1] : i \in DOMAIN walk}

\* C23: from a valid cursor on a non-empty list, with i = row * columns +
\* column, the cycle that consumes NextElement leaves the index (i + 1) mod
\* len(values) and the cycle that consumes PreviousElement leaves (i - 1) mod
\* len(values), the cursor being (index mod columns, index div columns); and
\* NextElement applied len(values) times from a valid cursor visits every
\* index 0 .. len(values) - 1.
C23_LinearOrder ==
    [][/\ ValidCursor(col_pos, row_pos, Cols, Len(values))
              => WalkIndexes(col_pos, row_pos, Cols, Len(values)) = 0..(Len(values) - 1)
       /\ (/\ CycleStep
           /\ event.kind \in {"NextElement", "PreviousElement"}
           /\ ValidCursor(col_pos, row_pos, get_cols(working_details'), Len(values)))
              => LET n == Len(values)
                     cols == get_cols(working_details')
                     i == row_pos * cols + col_pos
                     j == IF event.kind = "NextElement" THEN (i + 1) % n ELSE (i + n - 1) % n
                 IN  /\ row_pos' * cols + col_pos' = j
                     /\ col_pos' = j % cols
                     /\ row_pos' = j \div cols]_vars

\* PreviousElement was consumed on five values in two columns and the cursor
\* is on the last value, alone in the third row: from the first value it
\* wrapped to the end of the list.
C23_Witness ==
    /\ AfterEvent({"PreviousElement"})
    /\ Len(values) = 5
    /\ Cols = 2
    /\ col_pos = 0
    /\ row_pos = 2

\* ---- overwritten events, over the behaviours of SpecBridge
\* The step submits an event while an earlier one is still pending.
OverwriteStep == last'.op = "menu_event" /\ event # NoEvent

\* C24: an event submitted while another is pending replaces it as the
\* pending event and, at submission, changes nothing but the active flag and
\* the snapshot as its own kind prescribes; the next update cycle dispatches
\* the pending event alone and leaves none pending: unless that event is
\* Activate or Edit the values are not refreshed and the cursor is not reset,
\* and unless it is Activate the snapshot is not captured.
C24_LaterEventWins ==
    [][/\ OverwriteStep
              => (/\ event' = last'.ev
                  /\ UNCHANGED <<cursor, values, layout, editor>>
                  /\ active' = IF last'.ev.kind = "Activate" THEN TRUE
                               ELSE IF last'.ev.kind = "Deactivate" THEN FALSE ELSE active
                  /\ input' = IF last'.ev.kind = "Deactivate" THEN None ELSE input)
       /\ last'.op = "update_working_details"
              => (/\ last'.ev = event
                  /\ event' = NoEvent
                  /\ event.kind \notin {"Activate", "Edit"}
                         => (/\ values' = values
                             /\ last'.calls = <<>>
                             /\ event.kind \notin NavKinds
                                    => (col_pos' = col_pos /\ row_pos' = row_pos))
                  /\ event.kind # "Activate" => input' = input)]_vars

\* In delta mode NextElement was consumed on a menu that is active and holds
\* no snapshot: the Activate that set the flag was overwritten before any
\* cycle could dispatch it.
C24_Witness ==
    /\ AfterEvent({"NextElement"})
    /\ only_buffer_difference
    /\ active
    /\ input = None
    /\ event = NoEvent

\* ---- the range of the arithmetic, over the behaviours of SpecRender
\* C25: no call ends in an arithmetic overflow, and every 16-bit computation
\* has its exact value: the value count and the column width are unchanged by
\* their narrowing to 16 bits, row * columns + column, col_pos + 1 and
\* row_pos + 1 are within u16, and for a render of a non-empty list so are
\* skip_lines * columns and available_lines * columns.
C25_ArithmeticInRange ==
    /\ fault # "arithmetic_overflow"
    /\ U16(Len(values)) = Len(values)
    /\ U16(working_details.col_width) = working_details.col_width
    /\ index(col_pos, row_pos, Cols) = row_pos * Cols + col_pos
    /\ U16(col_pos + 1) = col_pos + 1
    /\ U16(row_pos + 1) = row_pos + 1
    /\ (last.op = "menu_string" /\ values # <<>>)
           => /\ available_values(last.arg, Cols) = last.arg * Cols
              /\ row_pos >= last.arg
                     => skip_values(row_pos, last.arg, Cols) = (row_pos - last.arg + 1) * Cols

====
